---------------------------- MODULE Spec2Model ----------------------------
(***************************************************************************)
(* Model of the render pipeline of video-to-text:                          *)
(*   src/src/app/api/render-video/route.ts   POST, execPromise             *)
(*   src/unnamed/part_002 (lines 100-331)    the SRT, VTT and ASS encoders *)
(*   src/src/app/api/translate/route.ts      POST                          *)
(*   src/src/components/SubtitleControls.tsx the position selector         *)
(*   src/src/components/TranscriptionProcessor.tsx  handleProcessVideo     *)
(* Two render requests are handled concurrently by one Node event loop.    *)
(* Each action is one continuation of the async handler: the code that     *)
(* runs between two awaits.  The host file system and the external encoder *)
(* processes are the only state the two jobs share.                        *)
(*                                                                         *)
(* Strings are sequences of tokens.  A token stands for a run of           *)
(* characters; "." and "/" are tokens of their own, so that path.extname   *)
(* can be computed as Node computes it, and String.includes("ffmpeg") is   *)
(* the presence of the token "ffmpeg".                                     *)
(***************************************************************************)
EXTENDS Integers, Sequences, FiniteSets, TLC

VARIABLES
  pc,         \* pc[j]: the await the handler of job j is suspended at
  req,        \* req[j]: the multipart form of the request
  jobId,      \* jobId[j]: the UUID drawn at line 22
  fs,         \* the host file system: path -> content
  proc,       \* proc[j]: the external process started by exec()
  error,      \* error[j]: message of the error the catch block caught
  cause,      \* cause[j]: what made the job fail (history)
  rm,         \* rm[j]: state of the rm(tempDir) promise of job j
  response,   \* response[j]: the response returned to the caller
  lifecycle,  \* lifecycle[j]: the job states visited so far (history)
  ran,        \* ran[j]: of mkdir and the two encoders, those that have run (history)
  args,       \* the segments and the style an encoder is called with on its own
  markup,     \* the encoder called on its own, and the string it returned
  translatePc,        \* the await the translate handler is suspended at
  translateBody,      \* the body of the translate request, as it was sent
  translateSegments,  \* the array the translate handler holds as segments
  translation,        \* the call of translateText and what it returned
  uuidsDrawn,         \* how many identifiers uuidv4 has returned to the translate handler
  translateResponse,  \* the response of the translate handler
  pageStyle,          \* page.tsx: the state subtitleStyle of the page
  propsStyle,         \* SubtitleControls: the prop style of its last render
  lastPick,           \* the option picked in the position selector by the last event, and customPosition at that render (history)
  processPc,          \* where handleProcessVideo is: idle, awaitPost, settled
  progress,           \* TranscriptionProcessor: the state progress
  intervals,          \* the interval timers started so far, by identifier: running or cleared, and their processingProgress
  processingInterval, \* window.__processingInterval: a timer identifier or none
  uploadEvents        \* how many upload-progress events were reported (history)

handlerVars == <<pc, req, jobId, fs, proc, error, cause, rm, response, lifecycle, ran>>

encVars == <<args, markup>>

translateVars == <<translatePc, translateBody, translateSegments, translation,
                   uuidsDrawn, translateResponse>>

\* What the actions of one part of the program leave alone: the state of the
\* other parts.
controlsVars == <<pageStyle, propsStyle, lastPick>>

processorVars == <<processPc, progress, intervals, processingInterval, uploadEvents>>

outsideHandler == <<encVars, translateVars, controlsVars, processorVars>>
outsideEncoders == <<handlerVars, translateVars, controlsVars, processorVars>>
outsideTranslate == <<handlerVars, encVars, controlsVars, processorVars>>
outsideControls == <<handlerVars, encVars, translateVars, processorVars>>
outsideProcessor == <<handlerVars, encVars, translateVars, controlsVars>>

vars == <<handlerVars, encVars, translateVars, controlsVars, processorVars>>

Jobs == {1, 2}

\* How many form fields of a request may differ from the well-formed request.
MaxDeviations == 1

(***************************************************************************)
(* Strings                                                                 *)
(***************************************************************************)
includes(s, tok) == \E i \in 1..Len(s) : s[i] = tok

IsPrefix(d, p) == Len(d) <= Len(p) /\ SubSeq(p, 1, Len(d)) = d

\* path.extname(name), Node's posix implementation: the extension runs from
\* the last "." of the last path component to its end; it is empty when there
\* is no ".", when the "." is the first character of the component, or when
\* the component is "..".
extname(name) ==
  LET nonSlash == {i \in 1..Len(name) : name[i] # "/"}
  IN IF nonSlash = {} THEN <<>>
     ELSE
       LET end == CHOOSE i \in nonSlash : \A k \in nonSlash : k <= i
           slashes == {i \in 1..end : name[i] = "/"}
           startPart == IF slashes = {} THEN 1
                        ELSE 1 + CHOOSE i \in slashes : \A k \in slashes : k <= i
           dots == {i \in startPart..end : name[i] = "."}
       IN IF dots = {} THEN <<>>
          ELSE
            LET startDot == CHOOSE i \in dots : \A k \in dots : k <= i
                preDotState == IF startDot = startPart THEN 0
                               ELSE IF name[startPart] = "." THEN 1 ELSE -1
            IN IF preDotState = 0
                  \/ (preDotState = 1 /\ startDot = end /\ startDot = startPart + 1)
               THEN <<>>
               ELSE SubSeq(name, startDot, end)

(***************************************************************************)
(* The request: the four form fields read at lines 28-31                   *)
(***************************************************************************)
Null == [kind |-> "null"]
EmptyStr == [kind |-> "empty"]
Text(t) == [kind |-> "text", text |-> t]
File(n, b) == [kind |-> "file", name |-> n, bytes |-> b]

\* JavaScript truthiness of a form field.
Truthy(v) == v.kind \in {"text", "file"}

\* Names of the uploaded file: without extension, with the usual one, with
\* shell syntax in the extension, with the word ffmpeg as the extension.
FileNames ==
  { <<"clip">>,
    <<"clip", ".", "mp4">>,
    <<"clip", ".", "$(sh)">>,
    <<"clip", ".", "ffmpeg">> }

VideoFiles == {Null} \cup {File(n, "bytesA") : n \in FileNames}
              \cup {File(<<"clip", ".", "mp4">>, "bytesB")}

StyleStrs == {Null, EmptyStr, Text(<<"{style}">>), Text(<<"{}">>), Text(<<"{style">>)}

SegmentsStrs ==
  {Null, EmptyStr, Text(<<"[seg 1-3]">>), Text(<<"[seg 1-3,seg 5-3]">>),
   Text(<<"null">>), Text(<<"[seg">>)}

EnabledStrs == {Null, Text(<<"true">>), Text(<<"false">>)}

AllRequests ==
  [videoFile : VideoFiles, subtitleStyle : StyleStrs,
   segments : SegmentsStrs, subtitlesEnabled : EnabledStrs]

WellFormed ==
  [videoFile |-> File(<<"clip", ".", "mp4">>, "bytesA"),
   subtitleStyle |-> Text(<<"{style}">>),
   segments |-> Text(<<"[seg 1-3]">>),
   subtitlesEnabled |-> Text(<<"true">>)]

Deviations(r) ==
  Cardinality({f \in {"videoFile", "subtitleStyle", "segments", "subtitlesEnabled"} :
                 r[f] # WellFormed[f]})

Requests == {r \in AllRequests : Deviations(r) <= MaxDeviations}

NoRequest == [videoFile |-> Null, subtitleStyle |-> Null,
              segments |-> Null, subtitlesEnabled |-> Null]

(***************************************************************************)
(* JSON.parse, on the documents the model sends                            *)
(***************************************************************************)
Seg(s, e) == [start |-> s, end |-> e, text |-> "hi"]

JsonDocs ==
  { [text |-> <<"{style}">>, value |-> [kind |-> "object", complete |-> TRUE]],
    [text |-> <<"{}">>, value |-> [kind |-> "object", complete |-> FALSE]],
    [text |-> <<"[seg 1-3]">>, value |-> [kind |-> "array", items |-> <<Seg(1, 3)>>]],
    [text |-> <<"[seg 1-3,seg 5-3]">>,
     value |-> [kind |-> "array", items |-> <<Seg(1, 3), Seg(5, 3)>>]],
    [text |-> <<"null">>, value |-> [kind |-> "null"]] }

JSONparses(s) == \E d \in JsonDocs : d.text = s.text

JSONparse(s) == (CHOOSE d \in JsonDocs : d.text = s.text).value

JSONerror(s) == <<"Unexpected token">> \o s.text \o <<"is not valid JSON">>


(***************************************************************************)
(* Paths, file contents and the command line                               *)
(***************************************************************************)
UUIDs == {"uuid-1", "uuid-2"}
NoId == "none"

\* uuidv4(): an identifier no earlier call has returned.
uuidv4(used) == CHOOSE u \in UUIDs : u \notin used

tempDirShared(id) == <<"cwd", "tmp", "job">>

\* line 23: path.join(process.cwd(), "tmp", jobId)
tempDir(id) == <<"cwd", "tmp", id>>

\* line 53: "input" + path.extname(videoFile.name) || ".mp4".  The operator +
\* binds tighter than ||, and "input" + ext is never the empty string, so the
\* right operand of || is never taken.
inputName(name) ==
  LET s == <<"input">> \o extname(name)
  IN IF s # <<>> THEN s ELSE <<".mp4">>

videoPath(dir, name) == dir \o inputName(name)
srtPath(dir) == dir \o <<"subtitles", ".", "srt">>
assPath(dir) == dir \o <<"subtitles", ".", "ass">>
outputPath(dir) == dir \o <<"output", ".", "mp4">>

\* line 72: the command handed to the shell.
ffmpegCommand(dir, name) ==
  <<"ffmpeg", "-i", "\"">> \o videoPath(dir, name) \o <<"\"", "-vf", "\"ass='">>
  \o assPath(dir) \o <<"'\"", "-c:a", "copy", "\"">> \o outputPath(dir) \o <<"\"">>

Dir == [fmt |-> "dir"]
NoContent == [fmt |-> "none"]
videoBytes(file) == [fmt |-> "video", payload |-> file.bytes]
\* lines 59 and 64: the markup the two encoders return for the parsed input.
srtFile(segments) == [fmt |-> "srt", payload |-> segments.items]
assFile(segments, style) == [fmt |-> "ass", payload |-> <<segments.items, style>>]
\* What the encoder process writes: the video with the markup burnt in.
Burn(video, ass) == [fmt |-> "mp4", payload |-> <<video, ass>>]
Partial(video) == [fmt |-> "mp4-partial", payload |-> <<video>>]

Write(f, path, content) ==
  [p \in DOMAIN f \cup {path} |-> IF p = path THEN content ELSE f[p]]

\* rm(dir, {recursive: true, force: true}): dir and everything below it.
Remove(f, dir) ==
  [p \in {q \in DOMAIN f : ~IsPrefix(dir, q)} |-> f[p]]

Exists(path) == path \in DOMAIN fs

(***************************************************************************)
(* Responses                                                               *)
(***************************************************************************)
NoResponse == [ctype |-> "none", disposition |-> "", payload |-> <<>>, status |-> 0]

JsonResponse(text, st) ==
  [ctype |-> "application/json", disposition |-> "", payload |-> text, status |-> st]

\* lines 34-39
MissingRequiredNoEnabled(r) ==
  \/ ~Truthy(r.videoFile)
  \/ ~Truthy(r.subtitleStyle)
  \/ ~Truthy(r.segments)

MissingRequired(r) ==
  \/ ~Truthy(r.videoFile)
  \/ ~Truthy(r.subtitleStyle)
  \/ ~Truthy(r.segments)
  \/ ~(r.subtitlesEnabled = Text(<<"true">>))

InvalidRequestResponse ==
  JsonResponse(<<"Missing required data for video rendering">>, 400)

SuccessResponseOctet(buffer) ==
  [ctype |-> "application/octet-stream",
   disposition |-> "attachment; filename=\"video-with-captions.mp4\"",
   payload |-> buffer, status |-> 200]

\* lines 86-91
SuccessResponse(buffer) ==
  [ctype |-> "video/mp4",
   disposition |-> "attachment; filename=\"video-with-captions.mp4\"",
   payload |-> buffer, status |-> 200]

FfmpegHint == <<"Error processing video. Make sure FFmpeg is installed on the server.">>

\* lines 103-117
ErrorResponse(msg) ==
  IF includes(msg, "ffmpeg")
  THEN JsonResponse(FfmpegHint, 500)
  ELSE JsonResponse(IF msg # <<>> THEN msg
                    ELSE <<"An error occurred during video rendering">>, 500)

(***************************************************************************)
(* The external process                                                    *)
(***************************************************************************)
NoProc == [state |-> "none", cmd |-> <<>>, input |-> <<>>, subs |-> <<>>,
           output |-> <<>>, exit |-> "none", wrote |-> NoContent]

\* child_process.exec: the message of the error it passes to the callback.
ExecError(p) ==
  <<"Command failed:">> \o p.cmd \o
  (IF p.exit = "missing" THEN <<"/bin/sh:", "ffmpeg", ": not found">>
   ELSE <<"Conversion failed!">>)

execPromiseAlwaysResolves(p) == "resolve"

\* lines 9-19: reject on error, resolve otherwise.
execPromise(p) == IF p.exit # "ok" THEN "reject" ELSE "resolve"


(***************************************************************************)
(* The format encoders: src/unnamed/part_002, lines 139-331                *)
(*                                                                         *)
(* Here a string is a sequence of characters; a run of characters that no  *)
(* operation looks into (a word of a text, a fixed piece of a template) is *)
(* written as one token.  A line feed is always a token of its own.  A     *)
(* number of seconds is given in whole milliseconds, an opacity in         *)
(* hundredths.                                                             *)
(***************************************************************************)
LF == "\n"
CR == "\r"

\* The white space String.prototype.trim removes.
WhiteSpace == {" ", "\t", LF, CR}

RECURSIVE trimStart(_)
trimStart(s) ==
  IF s # <<>> /\ Head(s) \in WhiteSpace THEN trimStart(Tail(s)) ELSE s

RECURSIVE trimEnd(_)
trimEnd(s) ==
  IF s # <<>> /\ s[Len(s)] \in WhiteSpace
  THEN trimEnd(SubSeq(s, 1, Len(s) - 1)) ELSE s

\* A trim that removes one white space character at each end only.
trimOne(s) ==
  LET a == IF s # <<>> /\ Head(s) \in WhiteSpace THEN Tail(s) ELSE s
  IN IF a # <<>> /\ a[Len(a)] \in WhiteSpace THEN SubSeq(a, 1, Len(a) - 1) ELSE a

trim(s) == trimEnd(trimStart(s))

\* replace(/\r?\n|\r/g, ' ')
RECURSIVE replaceLineBreaks(_)
replaceLineBreaks(s) ==
  IF s = <<>> THEN <<>>
  ELSE IF Len(s) >= 2 /\ s[1] = CR /\ s[2] = LF
  THEN <<" ">> \o replaceLineBreaks(SubSeq(s, 3, Len(s)))
  ELSE IF s[1] \in {LF, CR}
  THEN <<" ">> \o replaceLineBreaks(Tail(s))
  ELSE <<s[1]>> \o replaceLineBreaks(Tail(s))

\* lines 161-163 and 285-287
cleanText(text) == trim(replaceLineBreaks(text))

\* Array.prototype.join
RECURSIVE join(_, _)
join(strs, sep) ==
  IF strs = <<>> THEN <<>>
  ELSE IF Len(strs) = 1 THEN strs[1]
  ELSE strs[1] \o sep \o join(Tail(strs), sep)

\* String.prototype.split(sep) for a one-character separator
RECURSIVE split(_, _)
split(s, sep) ==
  IF \A i \in 1..Len(s) : s[i] # sep THEN <<s>>
  ELSE LET i == CHOOSE k \in 1..Len(s) :
                  s[k] = sep /\ \A m \in 1..(k - 1) : s[m] # sep
       IN <<SubSeq(s, 1, i - 1)>> \o split(SubSeq(s, i + 1, Len(s)), sep)

\* String.prototype.replace(c, ""): the first occurrence of c is removed.
removeFirst(s, c) ==
  IF \A i \in 1..Len(s) : s[i] # c THEN s
  ELSE LET i == CHOOSE k \in 1..Len(s) :
                  s[k] = c /\ \A m \in 1..(k - 1) : s[m] # c
       IN SubSeq(s, 1, i - 1) \o SubSeq(s, i + 1, Len(s))

\* String.prototype.replace(/c/g, ""): every occurrence of c is removed.
removeAll(s, c) == SelectSeq(s, LAMBDA x : x # c)

\* String.prototype.substring(from, to), positions counted from 0
substring(s, from, to) ==
  SubSeq(s, from + 1, IF to < Len(s) THEN to ELSE Len(s))

Digits == <<"0", "1", "2", "3", "4", "5", "6", "7", "8", "9",
            "a", "b", "c", "d", "e", "f">>

\* Number.prototype.toString(radix) of a natural number
RECURSIVE toStringRadix(_, _)
toStringRadix(n, radix) ==
  IF n < radix THEN <<Digits[n + 1]>>
  ELSE toStringRadix(n \div radix, radix) \o <<Digits[(n % radix) + 1]>>

toString(n) == toStringRadix(n, 10)

RECURSIVE padStart(_, _, _)
padStart(s, n, c) == IF Len(s) >= n THEN s ELSE padStart(<<c>> \o s, n, c)

toUpperCase(s) ==
  [i \in 1..Len(s) |->
     CASE s[i] = "a" -> "A" [] s[i] = "b" -> "B" [] s[i] = "c" -> "C"
       [] s[i] = "d" -> "D" [] s[i] = "e" -> "E" [] s[i] = "f" -> "F"
       [] OTHER -> s[i]]

\* The times, in milliseconds, the segments below start and end at.
Times == {0, 290, 1200, 1500, 3250, 59999, 3661500}

\* Math.floor((seconds % 1) * scale) is evaluated in binary64.  seconds % 1
\* is exact, but the nearest double to seconds may lie below the decimal
\* number, and then the product lies below the integer the decimal number
\* would give: 1.2 % 1 is 0.19999999999999996, and times 1000 it is
\* 199.99999999999994, times 100 it is 19.999999999999996; 0.29 * 100 is
\* 28.999999999999996.  These are the pairs of a time of Times and a scale
\* for which that happens.
Binary64Below == {<<290, 100>>, <<1200, 1000>>, <<1200, 100>>}

floorFraction(seconds, scale) ==
  LET decimal == ((seconds % 1000) * scale) \div 1000
  IN IF <<seconds, scale>> \in Binary64Below THEN decimal - 1 ELSE decimal

\* lines 139-146
formatSRTTime(seconds) ==
  LET hours == seconds \div 3600000
      minutes == (seconds % 3600000) \div 60000
      secs == (seconds % 60000) \div 1000
      ms == floorFraction(seconds, 1000)
  IN padStart(toString(hours), 2, "0") \o <<":">>
     \o padStart(toString(minutes), 2, "0") \o <<":">>
     \o padStart(toString(secs), 2, "0") \o <<",">>
     \o padStart(toString(ms), 3, "0")

\* lines 148-155
formatVTTTime(seconds) ==
  LET hours == seconds \div 3600000
      minutes == (seconds % 3600000) \div 60000
      secs == (seconds % 60000) \div 1000
      ms == floorFraction(seconds, 1000)
  IN padStart(toString(hours), 2, "0") \o <<":">>
     \o padStart(toString(minutes), 2, "0") \o <<":">>
     \o padStart(toString(secs), 2, "0") \o <<".">>
     \o padStart(toString(ms), 3, "0")

\* lines 324-331
formatASSTime(seconds) ==
  LET hours == seconds \div 3600000
      minutes == (seconds % 3600000) \div 60000
      secs == (seconds % 60000) \div 1000
      centisecs == floorFraction(seconds, 100)
  IN toString(hours) \o <<":">>
     \o padStart(toString(minutes), 2, "0") \o <<":">>
     \o padStart(toString(secs), 2, "0") \o <<".">>
     \o padStart(toString(centisecs), 2, "0")

\* The SRT encoder numbering its blocks as the array does, from 0.
generateSRTContentFromZero(segs) ==
  join([index \in 1..Len(segs) |->
          toString(index - 1) \o <<LF>>
          \o formatSRTTime(segs[index].start) \o <<" --> ">>
          \o formatSRTTime(segs[index].end) \o <<LF>>
          \o cleanText(segs[index].text) \o <<LF>>],
       <<LF>>)

\* lines 157-170
generateSRTContent(segs) ==
  join([index \in 1..Len(segs) |->
          toString(index) \o <<LF>>
          \o formatSRTTime(segs[index].start) \o <<" --> ">>
          \o formatSRTTime(segs[index].end) \o <<LF>>
          \o cleanText(segs[index].text) \o <<LF>>],
       <<LF>>)

\* lines 172-180
generateVTTContent(segs) ==
  <<"WEBVTT", LF, LF>> \o
  join([index \in 1..Len(segs) |->
          formatVTTTime(segs[index].start) \o <<" --> ">>
          \o formatVTTTime(segs[index].end) \o <<LF>>
          \o segs[index].text \o <<LF>>],
       <<LF>>)

\* lines 211-212
videoWidth == 1280
videoHeight == 720

\* Math.round(x) for x = num / den, in decimal arithmetic: halves go up.
round(num, den) == (2 * num + den) \div (2 * den)

\* Math.round((1 - opacity) * 255) is evaluated in binary64.  Of the
\* opacities 0.00, 0.01, ..., 1.00 only 0.9 gives another integer than the
\* decimal numbers do: 1 - 0.9 is 0.09999999999999998 and times 255 it is
\* 25.499999999999993, which rounds to 25, not to 26.
AlphaBelow == {90}

\* lines 199-202, the number only
roundAlpha(opacity) ==
  IF opacity \in AlphaBelow THEN round((100 - opacity) * 255, 100) - 1
  ELSE round((100 - opacity) * 255, 100)

\* convertColorToASS giving red-green-blue, as CSS has it
convertColorToRGB(cssHex, alpha) ==
  <<"&H">> \o alpha \o removeFirst(cssHex, "#")

\* lines 184-193
convertColorToASS(cssHex, alpha) ==
  LET hex == removeFirst(cssHex, "#")
      r == substring(hex, 0, 2)
      g == substring(hex, 2, 4)
      b == substring(hex, 4, 6)
  IN <<"&H">> \o alpha \o b \o g \o r

\* lines 197-202
bgAlphaHex(style) ==
  IF style.noBackground THEN <<"F", "F">>
  ELSE toUpperCase(padStart(toStringRadix(roundAlpha(style.opacity), 16), 2, "0"))

\* A variant of the alignment that stays in the bottom row.
alignmentBottomRow(style) ==
  IF style.alignment = "left" THEN "1"
  ELSE IF style.alignment = "right" THEN "3" ELSE "2"

\* A variant of the alignment that follows (alignment, position) in custom
\* mode too.
alignmentInEveryMode(style) ==
  LET bottom == IF style.alignment = "left" THEN "1"
                ELSE IF style.alignment = "right" THEN "3"
                ELSE "2"
  IN IF style.position = "top"
     THEN (IF bottom = "1" THEN "7" ELSE IF bottom = "2" THEN "8" ELSE "9")
     ELSE bottom

\* lines 216-233
alignment(style) ==
  IF ~style.customPosition
  THEN LET bottom == IF style.alignment = "left" THEN "1"
                     ELSE IF style.alignment = "right" THEN "3"
                     ELSE "2"
       IN IF style.position = "top"
          THEN (IF bottom = "1" THEN "7" ELSE IF bottom = "2" THEN "8" ELSE "9")
          ELSE bottom
  ELSE "2"

\* line 240
fontName(style) == removeAll(trim(split(style.fontFamily, ",")[1]), "'")

\* lines 247-249
outlineSize(style) ==
  IF style.noBackground THEN <<"1">>
  ELSE LET padding == round(style.fontSize * 75, 1000)
       IN toString(IF padding > 1 THEN padding ELSE 1)

\* The border style that ignores noBackground.
borderStyleBox(style) == "3"

\* line 252
borderStyle(style) == IF style.noBackground THEN "1" ELSE "3"

\* line 255
shadowSize(style) == IF style.noBackground THEN "1" ELSE "0"

\* line 259
marginV(style) == IF style.position = "bottom" THEN "20" ELSE "50"

\* line 273: the fields of the Style line
styleFields(style) ==
  LET textColor == convertColorToASS(style.color, <<"0", "0">>)
      outlineColor == convertColorToASS(style.backgroundColor, <<"0", "0">>)
      shadowColor == convertColorToASS(style.backgroundColor, bgAlphaHex(style))
  IN << <<"Default">>, fontName(style), toString(style.fontSize),
        textColor, textColor, outlineColor, shadowColor,
        <<IF style.bold THEN "1" ELSE "0">>,
        <<IF style.italic THEN "1" ELSE "0">>,
        <<"0">>, <<"0">>, <<"100">>, <<"100">>, <<"0">>, <<"0">>,
        <<borderStyle(style)>>, outlineSize(style), <<shadowSize(style)>>,
        <<alignment(style)>>, <<"10">>, <<"10">>, <<marginV(style)>>, <<"1">> >>

\* lines 264-277
header(style) ==
  <<"[Script Info]", LF,
    "ScriptType: v4.00+", LF,
    "PlayResX: ">> \o toString(videoWidth) \o <<LF,
    "PlayResY: ">> \o toString(videoHeight) \o <<LF,
    "ScaledBorderAndShadow: yes", LF,
    LF,
    "[V4+ Styles]", LF,
    "Format: Name, Fontname, Fontsize, PrimaryColour, SecondaryColour, OutlineColour, BackColour, Bold, Italic, Underline, StrikeOut, ScaleX, ScaleY, Spacing, Angle, BorderStyle, Outline, Shadow, Alignment, MarginL, MarginR, MarginV, Encoding", LF,
    "; Style with a CSS-like box background", LF,
    "Style: ">> \o join(styleFields(style), <<",">>) \o <<LF,
    LF,
    "[Events]", LF,
    "Format: Layer, Start, End, Style, Name, MarginL, MarginR, MarginV, Effect, Text", LF>>

\* A variant of the override block that places the event and leaves its
\* anchor to the style.
styleOverrideStringPosOnly(style) ==
  LET shad == IF style.noBackground THEN <<"\\shad1">> ELSE <<>>
      xPos == round(style.xPosition * videoWidth, 100)
      yPos == round(style.yPosition * videoHeight, 100)
      pos == IF style.customPosition
             THEN <<"\\pos(">> \o toString(xPos) \o <<",">> \o toString(yPos)
                  \o <<")">>
             ELSE <<>>
      styleOverrides == shad \o pos
  IN IF Len(styleOverrides) > 0 THEN <<"{">> \o styleOverrides \o <<"}">>
     ELSE <<>>

\* lines 290-314
styleOverrideString(style) ==
  LET shad == IF style.noBackground THEN <<"\\shad1">> ELSE <<>>
      xPos == round(style.xPosition * videoWidth, 100)
      yPos == round(style.yPosition * videoHeight, 100)
      pos == IF style.customPosition
             THEN <<"\\pos(">> \o toString(xPos) \o <<",">> \o toString(yPos)
                  \o <<")", "\\an5">>
             ELSE <<>>
      styleOverrides == shad \o pos
  IN IF Len(styleOverrides) > 0 THEN <<"{">> \o styleOverrides \o <<"}">>
     ELSE <<>>

\* lines 280-318
events(segs, style) ==
  join([i \in 1..Len(segs) |->
          <<"Dialogue: 0", ",">> \o formatASSTime(segs[i].start)
          \o <<",">> \o formatASSTime(segs[i].end)
          \o <<",", "Default", ",", ",", "0", ",", "0", ",", "0", ",", ",">>
          \o styleOverrideString(style) \o cleanText(segs[i].text)],
       <<LF>>)

\* lines 182-321
generateASSContent(segs, style) == header(style) \o events(segs, style)

(***************************************************************************)
(* The arguments the encoders are called with                              *)
(***************************************************************************)
\* How long a segment text may be, in tokens.
MaxTextLen == 3

\* How many segments a list may have.
MaxSegments == 2

\* How many fields of a style may differ from the default style.
MaxStyleDeviations == 2

TextTokens == {"Hello", "World", " ", LF, CR}

RECURSIVE SeqsUpTo(_, _)
SeqsUpTo(S, n) ==
  IF n = 0 THEN {<<>>}
  ELSE LET shorter == SeqsUpTo(S, n - 1)
       IN shorter \cup {Append(s, x) : s \in shorter, x \in S}

Texts == SeqsUpTo(TextTokens, MaxTextLen)

Segment(text, start, end) == [text |-> text, start |-> start, end |-> end]

\* A transcript: the i-th segment of a list is the i-th of these, unless it
\* is the one segment of the list that is varied.
Transcript ==
  <<Segment(<<"Hello">>, 1500, 3250),
    Segment(<<"World">>, 3250, 59999),
    Segment(<<"Hello", " ", "World">>, 59999, 3661500),
    Segment(<<"World", " ", "Hello">>, 3661500, 3661500)>>

VariedSegments ==
  {Segment(t, 1500, 3250) : t \in Texts}
  \cup {Segment(<<"Hello">>, s, e) : s \in Times, e \in Times}

SegmentLists ==
  UNION {{SubSeq(Transcript, 1, n)}
         \cup {[SubSeq(Transcript, 1, n) EXCEPT ![k] = v] :
                 k \in 1..n, v \in VariedSegments}
         : n \in 0..MaxSegments}

\* VideoPlayer.tsx, lines 355-369
defaultSubtitleStyle ==
  [fontSize |-> 20,
   fontFamily |-> <<"Arial", ",", " ", "sans-serif">>,
   color |-> <<"#", "F", "F", "F", "F", "F", "F">>,
   backgroundColor |-> <<"#", "0", "0", "0", "0", "0", "0">>,
   opacity |-> 70,
   bold |-> FALSE,
   italic |-> FALSE,
   alignment |-> "center",
   position |-> "bottom",
   noBackground |-> FALSE,
   customPosition |-> FALSE,
   xPosition |-> 50,
   yPosition |-> 90]

\* SubtitleControls.tsx, lines 12-26: the values of each field of a style
StyleValues ==
  [fontSize |-> {12, 20, 48},
   fontFamily |-> {<<"Arial", ",", " ", "sans-serif">>,
                   <<"'", "Times New Roman", "'", ",", " ", "serif">>,
                   <<"\"", "Open Sans", "\"", ",", " ", "sans-serif">>,
                   <<" ", "Arial">>},
   color |-> {<<"#", "F", "F", "F", "F", "F", "F">>,
              <<"#", "1", "1", "2", "2", "3", "3">>},
   backgroundColor |-> {<<"#", "0", "0", "0", "0", "0", "0">>,
                        <<"#", "1", "1", "2", "2", "3", "3">>},
   opacity |-> {0, 50, 70, 90, 100},
   bold |-> BOOLEAN,
   italic |-> BOOLEAN,
   alignment |-> {"left", "center", "right"},
   position |-> {"top", "bottom"},
   noBackground |-> BOOLEAN,
   customPosition |-> BOOLEAN,
   xPosition |-> {0, 50, 100},
   yPosition |-> {0, 90, 100}]

RECURSIVE StylesWithin(_)
StylesWithin(n) ==
  IF n = 0 THEN {defaultSubtitleStyle}
  ELSE LET fewer == StylesWithin(n - 1)
       IN fewer \cup
          UNION {{[s EXCEPT ![f] = v] : s \in fewer, v \in StyleValues[f]}
                 : f \in DOMAIN StyleValues}

Styles == StylesWithin(MaxStyleDeviations)

\* The calls: a varied list of segments with the default style, or the
\* transcript with a varied style.
EncoderArgs ==
  {[segments |-> l, style |-> defaultSubtitleStyle] : l \in SegmentLists}
  \cup {[segments |-> SubSeq(Transcript, 1, MaxSegments), style |-> s] : s \in Styles}

NoArgs == [segments |-> <<>>, style |-> defaultSubtitleStyle]
NoMarkup == [fn |-> "none", content |-> <<>>]

(***************************************************************************)
(* The translate handler (src/src/app/api/translate/route.ts)              *)
(***************************************************************************)
\* How many segments a translate request carries at most, and how many
\* tokens the answer of the translator has at most.
MaxTranslateSegments == 2
MaxAnswerLen == 3

\* line 17: the separator the texts are joined with, one token
SegmentBreak == "\n---SEGMENT_BREAK---\n"

\* The segments a client sends: VideoUploader.tsx, TranscriptionSegment.
TranslateSegment(n, start, end, text) ==
  [id |-> <<"seg", n>>, start |-> start, end |-> end, text |-> text]

ClientSegments ==
  {TranslateSegment(1, 0, 1200, <<"Hello">>),
   TranslateSegment(2, 1200, 3250, <<"World">>)}

\* JSON values of the field segments: an array, no value, or another value.
Array(items) == [kind |-> "array", items |-> items]
NoValue == [kind |-> "null"]
OtherValue == [kind |-> "object"]

\* line 9: !segments || !Array.isArray(segments) || !targetLanguage
InvalidTranslate(body) ==
  \/ body.segments.kind = "null"
  \/ body.segments.kind # "array"
  \/ body.targetLanguage = <<>>

\* The bodies req.json() resolves with, and the one it rejects.
UnparsableBody == [segments |-> NoValue, targetLanguage |-> <<"{">>]

TranslateBodies ==
  {[segments |-> s, targetLanguage |-> l] :
     s \in {Array(a) : a \in SeqsUpTo(ClientSegments, MaxTranslateSegments)}
           \cup {NoValue, OtherValue},
     l \in {<<"es">>, <<>>}}
  \cup {UnparsableBody}

\* What translateText resolves with: any text, with or without separators.
AnswerTokens == {"Hola", " ", SegmentBreak}
Answers == SeqsUpTo(AnswerTokens, MaxAnswerLen)

NoAnswer == <<"(pending)">>
NoTranslation == [text |-> <<>>, targetLanguage |-> <<>>, result |-> NoAnswer]

\* line 17
combinedText(segs) ==
  join([i \in 1..Len(segs) |-> segs[i].text], <<SegmentBreak>>)

\* line 23
translatedTexts(translatedCombined) == split(translatedCombined, SegmentBreak)

\* line 28: the n-th identifier uuidv4 returns; no two calls return the same
\* one, and none is an identifier a client has sent.
uuid(n) == <<"uuid", n>>

\* The segments of the response when the identifier of the input segment is
\* kept.
translatedSegmentsSameIds(segs, texts, drawn) ==
  [index \in 1..Len(segs) |->
     [segs[index] EXCEPT
        !.text = LET t == IF index <= Len(texts) THEN trim(texts[index])
                          ELSE <<>>
                 IN IF t # <<>> THEN t ELSE segs[index].text]]

\* lines 26-30: a new array of new objects; the piece at the index of the
\* segment, trimmed, or the text of the segment when there is no piece or
\* the piece is empty.
translatedSegments(segs, texts, drawn) ==
  [index \in 1..Len(segs) |->
     [segs[index] EXCEPT
        !.id = uuid(drawn + index),
        !.text = LET t == IF index <= Len(texts) THEN trim(texts[index])
                          ELSE <<>>
                 IN IF t # <<>> THEN t ELSE segs[index].text]]

NoTranslateResponse == [status |-> 0, error |-> <<>>, segments |-> <<>>, language |-> <<>>]

\* lines 10-13
InvalidTranslateResponse ==
  [status |-> 400,
   error |-> <<"Invalid request. Segments array and targetLanguage are required.">>,
   segments |-> <<>>, language |-> <<>>]

\* lines 40-43
TranslateErrorResponse(msg) ==
  [status |-> 500,
   error |-> IF msg # <<>> THEN msg ELSE <<"An error occurred during translation">>,
   segments |-> <<>>, language |-> <<>>]

\* lines 32-35
TranslatedResponse(segs, language) ==
  [status |-> 200, error |-> <<>>, segments |-> segs, language |-> language]

TranslateIdle ==
  /\ translatePc = "idle"
  /\ translateBody = UnparsableBody
  /\ translateSegments = <<>>
  /\ translation = NoTranslation
  /\ uuidsDrawn = 0
  /\ translateResponse = NoTranslateResponse

\* lines 5-7: a request arrives; the handler runs up to await req.json().
TranslatePost ==
  /\ translatePc = "idle"
  /\ \E body \in TranslateBodies : translateBody' = body
  /\ translatePc' = "awaitJson"
  /\ UNCHANGED <<translateSegments, translation, uuidsDrawn, translateResponse>>
  /\ UNCHANGED outsideTranslate

\* lines 7-20: req.json() settles; an unparsable body goes to the catch
\* block, an invalid one gets status 400, and for a valid one the texts are
\* joined and translateText is called.
TranslateJsonSettled ==
  /\ translatePc = "awaitJson"
  /\ UNCHANGED outsideTranslate
  /\ UNCHANGED <<translateBody, uuidsDrawn>>
  /\ IF translateBody = UnparsableBody
     THEN /\ translateResponse' =
               TranslateErrorResponse(<<"Unexpected token in JSON">>)
          /\ translatePc' = "done"
          /\ UNCHANGED <<translateSegments, translation>>
     ELSE IF InvalidTranslate(translateBody)
     THEN /\ translateResponse' = InvalidTranslateResponse
          /\ translatePc' = "done"
          /\ UNCHANGED <<translateSegments, translation>>
     ELSE /\ translateSegments' = translateBody.segments.items
          /\ translation' =
               [text |-> combinedText(translateBody.segments.items),
                targetLanguage |-> translateBody.targetLanguage,
                result |-> NoAnswer]
          /\ translatePc' = "awaitTranslate"
          /\ UNCHANGED translateResponse

\* lines 20-35 and 37-43: translateText settles; when it throws, the catch
\* block answers with status 500; otherwise the answer is split and the new
\* segments are returned.
TranslateSettled ==
  /\ translatePc = "awaitTranslate"
  /\ UNCHANGED outsideTranslate
  /\ UNCHANGED <<translateBody, translateSegments>>
  /\ translatePc' = "done"
  /\ \/ /\ translateResponse' = TranslateErrorResponse(<<"Request failed">>)
        /\ UNCHANGED <<translation, uuidsDrawn>>
     \/ \E answer \in Answers :
          /\ translation' = [translation EXCEPT !.result = answer]
          /\ translateResponse' =
               TranslatedResponse(
                 translatedSegments(translateSegments, translatedTexts(answer),
                                    uuidsDrawn),
                 translation.targetLanguage)
          /\ uuidsDrawn' = uuidsDrawn + Len(translateSegments)

TranslateNext ==
  \/ TranslatePost
  \/ TranslateJsonSettled
  \/ TranslateSettled

(***************************************************************************)
(* The subtitle controls (src/src/components/SubtitleControls.tsx) and the *)
(* page that holds the style (src/src/app/page.tsx)                        *)
(***************************************************************************)
\* SubtitleControls.tsx, lines 42-44: the style handleChange passes to
\* onChange, built from the style prop of the render the handler belongs to.
handleChange(style, key, value) == [style EXCEPT ![key] = value]

\* SubtitleControls.tsx, lines 274-296: the styles the change handler of the
\* position selector passes to onChange, in the order of its calls.
positionOnChange(style, value) ==
  IF value = "custom"
  THEN <<handleChange(style, "customPosition", TRUE)>>
  ELSE <<handleChange(style, "customPosition", FALSE),
         handleChange(style, "position", value)>>
       \o (IF style.customPosition
           THEN <<handleChange(style, "xPosition", 50),
                  handleChange(style, "yPosition",
                               IF value = "top" THEN 10 ELSE 90)>>
           ELSE <<>>)

\* page.tsx, lines 78-85: handleSubtitleStyleChange stores the style it is
\* given; after several calls in one event the state is the last one.
handleSubtitleStyleChange(current, newStyles) ==
  IF newStyles = <<>> THEN current ELSE newStyles[Len(newStyles)]

\* The values the controls of the position tab offer.
PositionOptions == {"bottom", "top", "custom"}
SliderValues == {0, 10, 50, 90, 100}
AlignmentOptions == {"left", "center", "right"}

NoPick == [value |-> "none", custom |-> FALSE]

\* page.tsx, lines 23-37: the initial style, rendered.
ControlsIdle ==
  /\ pageStyle = defaultSubtitleStyle
  /\ propsStyle = defaultSubtitleStyle
  /\ lastPick = NoPick

\* page.tsx, lines 198-201: the page renders the controls with its style.
Render ==
  /\ propsStyle # pageStyle
  /\ propsStyle' = pageStyle
  /\ UNCHANGED <<pageStyle, lastPick>>
  /\ UNCHANGED outsideControls

\* SubtitleControls.tsx, lines 272-296: the user picks an option of the
\* position selector.
PickPosition ==
  /\ propsStyle = pageStyle
  /\ \E value \in PositionOptions :
       /\ value # (IF propsStyle.customPosition THEN "custom" ELSE propsStyle.position)
       /\ pageStyle' = handleSubtitleStyleChange(pageStyle,
                                                 positionOnChange(propsStyle, value))
       /\ lastPick' = [value |-> value, custom |-> propsStyle.customPosition]
  /\ UNCHANGED propsStyle
  /\ UNCHANGED outsideControls

\* SubtitleControls.tsx, lines 305-343: the user moves the X or the Y slider,
\* which are shown in custom mode.
MoveSlider ==
  /\ propsStyle = pageStyle
  /\ propsStyle.customPosition
  /\ \E key \in {"xPosition", "yPosition"}, value \in SliderValues :
       pageStyle' = handleSubtitleStyleChange(pageStyle,
                                              <<handleChange(propsStyle, key, value)>>)
  /\ lastPick' = NoPick
  /\ UNCHANGED propsStyle
  /\ UNCHANGED outsideControls

\* SubtitleControls.tsx, lines 150-155: the user picks an alignment.
PickAlignment ==
  /\ propsStyle = pageStyle
  /\ \E value \in AlignmentOptions :
       pageStyle' = handleSubtitleStyleChange(pageStyle,
                                              <<handleChange(propsStyle, "alignment", value)>>)
  /\ lastPick' = NoPick
  /\ UNCHANGED propsStyle
  /\ UNCHANGED outsideControls

ControlsNext ==
  \/ Render
  \/ PickPosition
  \/ MoveSlider
  \/ PickAlignment

(***************************************************************************)
(* The transcription processor                                             *)
(* (src/src/components/TranscriptionProcessor.tsx, handleProcessVideo)     *)
(***************************************************************************)
\* How many upload-progress events one upload reports at most, and how many
\* times one interval timer fires at most.
MaxUploadEvents == 3
MaxTicks == 2

\* line 265: the values of percentCompleted the events report
Percents == {0, 50, 100}

\* window.__processingInterval when it holds no timer
NoInterval == 0

\* lines 283-286: the progress a tick of the simulation shows is capped.
SimulationCap == 48

ProcessorIdle ==
  /\ processPc = "idle"
  /\ progress = 0
  /\ intervals = <<>>
  /\ processingInterval = NoInterval
  /\ uploadEvents = 0

\* lines 237-259: handleProcessVideo runs up to await axios.post(...).
ProcessVideo ==
  /\ processPc = "idle"
  /\ processPc' = "awaitPost"
  /\ progress' = 0
  /\ UNCHANGED <<intervals, processingInterval, uploadEvents>>
  /\ UNCHANGED outsideProcessor

\* lines 305-309 and 327-331: clearInterval(window.__processingInterval)
\* stops the timer with that identifier, and no other.
clearInterval(running, id) ==
  [k \in 1..Len(running) |->
     IF k = id THEN [running[k] EXCEPT !.running = FALSE] ELSE running[k]]

\* lines 263-301: an upload-progress event.  An event that reports 100%
\* starts an interval timer and stores its identifier in
\* window.__processingInterval.
UploadProgress ==
  /\ processPc = "awaitPost"
  /\ uploadEvents < MaxUploadEvents
  /\ uploadEvents' = uploadEvents + 1
  /\ \E percentCompleted \in Percents :
       /\ progress' = percentCompleted \div 2
       /\ IF percentCompleted >= 100
          THEN /\ intervals' = Append(intervals,
                                      [running |-> TRUE, processingProgress |-> 0])
               /\ processingInterval' = Len(intervals) + 1
          ELSE UNCHANGED <<intervals, processingInterval>>
  /\ UNCHANGED processPc
  /\ UNCHANGED outsideProcessor

\* lines 282-294: a running interval timer fires.
Tick ==
  /\ \E id \in 1..Len(intervals) :
       /\ intervals[id].running
       /\ intervals[id].processingProgress < MaxTicks
       /\ intervals' = [intervals EXCEPT ![id].processingProgress = @ + 1]
       /\ progress' = IF intervals[id].processingProgress + 1 <= SimulationCap
                      THEN 50 + intervals[id].processingProgress + 1
                      ELSE progress
  /\ UNCHANGED <<processPc, processingInterval, uploadEvents>>
  /\ UNCHANGED outsideProcessor

\* lines 302-323 and 336-343: the request succeeds; the timer named by
\* window.__processingInterval is cleared, the progress is set to 100 and, in
\* the finally block, to 0.
PostResolved ==
  /\ processPc = "awaitPost"
  /\ processPc' = "settled"
  /\ IF processingInterval # NoInterval
     THEN /\ intervals' = clearInterval(intervals, processingInterval)
          /\ processingInterval' = NoInterval
     ELSE UNCHANGED <<intervals, processingInterval>>
  /\ progress' = 0
  /\ UNCHANGED uploadEvents
  /\ UNCHANGED outsideProcessor

\* lines 325-343: the request fails; the catch block clears the timer named
\* by window.__processingInterval and the finally block resets the progress.
PostRejected ==
  /\ processPc = "awaitPost"
  /\ processPc' = "settled"
  /\ IF processingInterval # NoInterval
     THEN /\ intervals' = clearInterval(intervals, processingInterval)
          /\ processingInterval' = NoInterval
     ELSE UNCHANGED <<intervals, processingInterval>>
  /\ progress' = 0
  /\ UNCHANGED uploadEvents
  /\ UNCHANGED outsideProcessor

ProcessorNext ==
  \/ ProcessVideo
  \/ UploadProgress
  \/ Tick
  \/ PostResolved
  \/ PostRejected

(***************************************************************************)
(* The handler                                                             *)
(***************************************************************************)
Init ==
  /\ pc = [j \in Jobs |-> "idle"]
  /\ req = [j \in Jobs |-> NoRequest]
  /\ jobId = [j \in Jobs |-> NoId]
  /\ fs = [p \in {<<"cwd">>} |-> Dir]
  /\ proc = [j \in Jobs |-> NoProc]
  /\ error = [j \in Jobs |-> <<>>]
  /\ cause = [j \in Jobs |-> "none"]
  /\ rm = [j \in Jobs |-> "none"]
  /\ response = [j \in Jobs |-> NoResponse]
  /\ lifecycle = [j \in Jobs |-> <<>>]
  /\ ran = [j \in Jobs |-> {}]
  /\ args = NoArgs
  /\ markup = NoMarkup
  /\ TranslateIdle
  /\ ControlsIdle
  /\ ProcessorIdle

dir(j) == tempDir(jobId[j])
subtitleStyle(j) == JSONparse(req[j].subtitleStyle)
segments(j) == JSONparse(req[j].segments)

\* The catch block without the await: the removal is started and the error
\* response is returned at once.
CatchNoAwait(j, msg, c) ==
  /\ error' = [error EXCEPT ![j] = msg]
  /\ cause' = [cause EXCEPT ![j] = c]
  /\ rm' = [rm EXCEPT ![j] = "running"]
  /\ pc' = [pc EXCEPT ![j] = "done"]
  /\ lifecycle' = [lifecycle EXCEPT ![j] = Append(@, "failed")]
  /\ response' = [response EXCEPT ![j] = ErrorResponse(msg)]

\* lines 93-98: the catch block up to its await of rm(tempDir).  Its rest is
\* RmSettled.
Catch(j, msg, c) ==
  /\ error' = [error EXCEPT ![j] = msg]
  /\ cause' = [cause EXCEPT ![j] = c]
  /\ rm' = [rm EXCEPT ![j] = "running"]
  /\ pc' = [pc EXCEPT ![j] = "awaitRmCatch"]
  /\ lifecycle' = [lifecycle EXCEPT ![j] = Append(@, "failed")]
  /\ UNCHANGED response

\* lines 21-27: a request arrives; the handler runs up to await req.formData().
\* The jobs are numbered in the order of their arrival.
Post(j) ==
  /\ pc[j] = "idle"
  /\ UNCHANGED outsideHandler
  /\ \A k \in Jobs : k < j => pc[k] # "idle"
  /\ \E r \in Requests : req' = [req EXCEPT ![j] = r]
  /\ jobId' = [jobId EXCEPT ![j] = uuidv4({jobId[k] : k \in Jobs})]
  /\ pc' = [pc EXCEPT ![j] = "awaitFormData"]
  /\ lifecycle' = [lifecycle EXCEPT ![j] = <<"created">>]
  /\ UNCHANGED <<fs, proc, error, cause, rm, response, ran>>

\* lines 27-50: the form is read, checked and parsed; mkdir is called.
FormDataSettled(j) ==
  /\ pc[j] = "awaitFormData"
  /\ UNCHANGED outsideHandler
  /\ UNCHANGED <<req, jobId, fs, proc, ran>>
  /\ \/ Catch(j, <<"Failed to parse body as FormData.">>, "bad_input")
     \/ /\ MissingRequired(req[j])
        /\ response' = [response EXCEPT ![j] = InvalidRequestResponse]
        /\ pc' = [pc EXCEPT ![j] = "done"]
        /\ cause' = [cause EXCEPT ![j] = "bad_input"]
        /\ lifecycle' = [lifecycle EXCEPT ![j] = Append(@, "rejected")]
        /\ UNCHANGED <<error, rm>>
     \/ /\ ~MissingRequired(req[j])
        /\ IF ~JSONparses(req[j].subtitleStyle)
           THEN Catch(j, JSONerror(req[j].subtitleStyle), "bad_input")
           ELSE IF ~JSONparses(req[j].segments)
           THEN Catch(j, JSONerror(req[j].segments), "bad_input")
           ELSE IF segments(j).kind = "null"
           THEN Catch(j, <<"Cannot read properties of null (reading 'length')">>,
                      "bad_input")
           ELSE /\ pc' = [pc EXCEPT ![j] = "awaitMkdir"]
                /\ UNCHANGED <<error, cause, rm, response, lifecycle>>

\* lines 50-55: mkdir settles; the video is handed to writeFile.
MkdirSettled(j) ==
  /\ pc[j] = "awaitMkdir"
  /\ UNCHANGED outsideHandler
  /\ UNCHANGED <<req, jobId, proc>>
  /\ \/ /\ Catch(j, <<"EACCES: permission denied, mkdir">> \o dir(j), "io")
        /\ UNCHANGED <<fs, ran>>
     \/ /\ fs' = Write(fs, dir(j), Dir)
        /\ ran' = [ran EXCEPT ![j] = @ \cup {"mkdir"}]
        /\ pc' = [pc EXCEPT ![j] = "awaitWriteVideo"]
        /\ UNCHANGED <<error, cause, rm, response, lifecycle>>

\* lines 55-61: the video is written; the SRT encoder runs.
WriteVideoSettled(j) ==
  /\ pc[j] = "awaitWriteVideo"
  /\ UNCHANGED outsideHandler
  /\ UNCHANGED <<req, jobId, proc>>
  /\ \/ /\ Catch(j, <<"EACCES: permission denied, open">>
                    \o videoPath(dir(j), req[j].videoFile.name), "io")
        /\ UNCHANGED <<fs, ran>>
     \/ /\ Exists(dir(j))
        /\ fs' = Write(fs, videoPath(dir(j), req[j].videoFile.name),
                       videoBytes(req[j].videoFile))
        /\ ran' = [ran EXCEPT ![j] = @ \cup {"srt"}]
        /\ pc' = [pc EXCEPT ![j] = "awaitWriteSrt"]
        /\ UNCHANGED <<error, cause, rm, response, lifecycle>>

\* lines 72-76: the command is built and exec() starts the process.
StartEncoder(j) ==
  /\ proc' = [proc EXCEPT ![j] =
       [state |-> "running",
        cmd |-> ffmpegCommand(dir(j), req[j].videoFile.name),
        input |-> videoPath(dir(j), req[j].videoFile.name),
        subs |-> assPath(dir(j)),
        output |-> outputPath(dir(j)),
        exit |-> "none", wrote |-> NoContent]]
  /\ pc' = [pc EXCEPT ![j] = "awaitExec"]
  /\ lifecycle' = [lifecycle EXCEPT ![j] = @ \o <<"staged", "encoding">>]

\* The same continuation with the await of writeFile(assPath) left out: the
\* process is started while the markup is still being written.
WriteSrtSettledNoAwait(j) ==
  /\ pc[j] = "awaitWriteSrt"
  /\ UNCHANGED outsideHandler
  /\ UNCHANGED <<req, jobId, error, cause, rm, response>>
  /\ Exists(dir(j))
  /\ subtitleStyle(j).complete
  /\ fs' = Write(fs, srtPath(dir(j)), srtFile(segments(j)))
  /\ ran' = [ran EXCEPT ![j] = @ \cup {"ass"}]
  /\ StartEncoder(j)

\* lines 61-66: the SRT file is written; the ASS encoder runs.
WriteSrtSettled(j) ==
  /\ pc[j] = "awaitWriteSrt"
  /\ UNCHANGED outsideHandler
  /\ UNCHANGED <<req, jobId, proc>>
  /\ \/ /\ Catch(j, <<"EACCES: permission denied, open">> \o srtPath(dir(j)), "io")
        /\ UNCHANGED <<fs, ran>>
     \/ /\ Exists(dir(j))
        /\ fs' = Write(fs, srtPath(dir(j)), srtFile(segments(j)))
        /\ ran' = [ran EXCEPT ![j] = @ \cup {"ass"}]
        /\ IF ~subtitleStyle(j).complete
           THEN Catch(j, <<"Cannot read properties of undefined (reading 'replace')">>,
                      "encoder_threw")
           ELSE /\ pc' = [pc EXCEPT ![j] = "awaitWriteAss"]
                /\ UNCHANGED <<error, cause, rm, response, lifecycle>>

\* lines 66-76: the ASS file is written; the process is started.
WriteAssSettled(j) ==
  /\ pc[j] = "awaitWriteAss"
  /\ UNCHANGED outsideHandler
  /\ UNCHANGED <<req, jobId, ran>>
  /\ \/ /\ Catch(j, <<"EACCES: permission denied, open">> \o assPath(dir(j)), "io")
        /\ UNCHANGED <<fs, proc>>
     \/ /\ Exists(dir(j))
        /\ fs' = Write(fs, assPath(dir(j)), assFile(segments(j), subtitleStyle(j)))
        /\ StartEncoder(j)
        /\ UNCHANGED <<error, cause, rm, response>>

\* The external process ends: the shell does not find the binary, or the
\* encoder fails (it may leave a partial output file), or it succeeds and has
\* written the output file.
ProcExit(j) ==
  /\ proc[j].state = "running"
  /\ UNCHANGED outsideHandler
  /\ UNCHANGED <<pc, req, jobId, error, cause, rm, response, lifecycle, ran>>
  /\ \/ /\ proc' = [proc EXCEPT ![j].state = "exited", ![j].exit = "missing"]
        /\ UNCHANGED fs
     \/ /\ proc' = [proc EXCEPT ![j].state = "exited", ![j].exit = "failed"]
        /\ UNCHANGED fs
     \/ /\ Exists(proc[j].input) /\ Exists(dir(j))
        /\ proc' = [proc EXCEPT ![j].state = "exited", ![j].exit = "failed",
                                ![j].wrote = Partial(fs[proc[j].input])]
        /\ fs' = Write(fs, proc[j].output, Partial(fs[proc[j].input]))
     \/ /\ Exists(proc[j].input) /\ Exists(proc[j].subs) /\ Exists(dir(j))
        /\ proc' = [proc EXCEPT ![j].state = "exited", ![j].exit = "ok",
                                ![j].wrote = Burn(fs[proc[j].input], fs[proc[j].subs])]
        /\ fs' = Write(fs, proc[j].output, Burn(fs[proc[j].input], fs[proc[j].subs]))

\* The same continuation with the removal started before the read: rm(tempDir)
\* is called as soon as the process has ended.
ExecSettledRmFirst(j) ==
  /\ pc[j] = "awaitExec"
  /\ UNCHANGED outsideHandler
  /\ proc[j].state = "exited"
  /\ UNCHANGED <<req, jobId, fs, proc, ran>>
  /\ IF execPromise(proc[j]) = "reject"
     THEN Catch(j, ExecError(proc[j]),
                IF proc[j].exit = "missing" THEN "encoder_unavailable"
                ELSE "encode_failed")
     ELSE /\ pc' = [pc EXCEPT ![j] = "awaitRead"]
          /\ rm' = [rm EXCEPT ![j] = "running"]
          /\ lifecycle' = [lifecycle EXCEPT ![j] = Append(@, "succeeded")]
          /\ UNCHANGED <<error, cause, response>>

\* The same continuation when the process is run synchronously (execSync): the
\* event loop delivers a job's exit only while no other process is running.
ExecSettledSerial(j) ==
  /\ pc[j] = "awaitExec"
  /\ UNCHANGED outsideHandler
  /\ proc[j].state = "exited"
  /\ \A k \in Jobs \ {j} : proc[k].state # "running"
  /\ UNCHANGED <<req, jobId, fs, proc, ran>>
  /\ IF execPromise(proc[j]) = "reject"
     THEN Catch(j, ExecError(proc[j]),
                IF proc[j].exit = "missing" THEN "encoder_unavailable"
                ELSE "encode_failed")
     ELSE /\ pc' = [pc EXCEPT ![j] = "awaitRead"]
          /\ lifecycle' = [lifecycle EXCEPT ![j] = Append(@, "succeeded")]
          /\ UNCHANGED <<error, cause, rm, response>>

\* lines 11-17 and 76-79: exec's callback settles the promise; on success the
\* handler calls readFile(outputPath).
ExecSettled(j) ==
  /\ pc[j] = "awaitExec"
  /\ UNCHANGED outsideHandler
  /\ proc[j].state = "exited"
  /\ UNCHANGED <<req, jobId, fs, proc, ran>>
  /\ IF execPromise(proc[j]) = "reject"
     THEN Catch(j, ExecError(proc[j]),
                IF proc[j].exit = "missing" THEN "encoder_unavailable"
                ELSE "encode_failed")
     ELSE /\ pc' = [pc EXCEPT ![j] = "awaitRead"]
          /\ lifecycle' = [lifecycle EXCEPT ![j] = Append(@, "succeeded")]
          /\ UNCHANGED <<error, cause, rm, response>>

\* The same continuation without lines 82-83: the video is returned and the
\* workspace is left behind.
ReadSettledNoRm(j) ==
  /\ pc[j] = "awaitRead"
  /\ UNCHANGED outsideHandler
  /\ UNCHANGED <<req, jobId, fs, proc, ran>>
  /\ \/ Catch(j, <<"ENOENT: no such file or directory, open">> \o outputPath(dir(j)),
              "io")
     \/ /\ Exists(outputPath(dir(j)))
        /\ response' = [response EXCEPT ![j] = SuccessResponse(fs[outputPath(dir(j))])]
        /\ pc' = [pc EXCEPT ![j] = "done"]
        /\ UNCHANGED <<error, cause, lifecycle, rm>>

\* lines 79-91: the output is read; the removal is started and not awaited;
\* the video is returned.
ReadSettled(j) ==
  /\ pc[j] = "awaitRead"
  /\ UNCHANGED outsideHandler
  /\ UNCHANGED <<req, jobId, fs, proc, ran>>
  /\ \/ Catch(j, <<"ENOENT: no such file or directory, open">> \o outputPath(dir(j)),
              "io")
     \/ /\ Exists(outputPath(dir(j)))
        /\ rm' = [rm EXCEPT ![j] = "running"]
        /\ response' = [response EXCEPT ![j] = SuccessResponse(fs[outputPath(dir(j))])]
        /\ pc' = [pc EXCEPT ![j] = "done"]
        /\ UNCHANGED <<error, cause, lifecycle>>

\* rm(tempDir, {recursive, force}) settles: the tree is gone, or the removal
\* failed.  In the catch block (lines 97-117) the handler was waiting for it
\* and now returns the error response.
RmSettled(j) ==
  /\ rm[j] = "running"
  /\ UNCHANGED outsideHandler
  /\ UNCHANGED <<req, jobId, proc, error, cause, ran>>
  /\ \/ /\ fs' = Remove(fs, dir(j))
        /\ rm' = [rm EXCEPT ![j] = "done"]
        /\ lifecycle' = [lifecycle EXCEPT ![j] = Append(@, "cleaned")]
     \/ /\ rm' = [rm EXCEPT ![j] = "failed"]
        /\ UNCHANGED <<fs, lifecycle>>
  /\ IF pc[j] = "awaitRmCatch"
     THEN /\ response' = [response EXCEPT ![j] = ErrorResponse(error[j])]
          /\ pc' = [pc EXCEPT ![j] = "done"]
     ELSE UNCHANGED <<response, pc>>

Next ==
  \E j \in Jobs :
    \/ Post(j)
    \/ FormDataSettled(j)
    \/ MkdirSettled(j)
    \/ WriteVideoSettled(j)
    \/ WriteSrtSettled(j)
    \/ WriteAssSettled(j)
    \/ ProcExit(j)
    \/ ExecSettled(j)
    \/ ReadSettled(j)
    \/ RmSettled(j)

Spec == Init /\ [][Next]_vars

\* The continuations of the handler run when the promise they wait for has
\* settled: the event loop serves every ready callback, and the file system
\* operations (mkdir, writeFile, readFile, rm) and req.formData() terminate.
\* Nothing makes an external process exit: ProcExit is left without fairness.
Continuations(j) ==
  \/ FormDataSettled(j)
  \/ MkdirSettled(j)
  \/ WriteVideoSettled(j)
  \/ WriteSrtSettled(j)
  \/ WriteAssSettled(j)
  \/ ExecSettled(j)
  \/ ReadSettled(j)
  \/ RmSettled(j)

LiveSpec == Spec /\ \A j \in Jobs : WF_vars(Continuations(j))

(***************************************************************************)
(* The encoders called on their own                                        *)
(***************************************************************************)
EncInit ==
  /\ pc = [j \in Jobs |-> "idle"]
  /\ req = [j \in Jobs |-> NoRequest]
  /\ jobId = [j \in Jobs |-> NoId]
  /\ fs = [p \in {<<"cwd">>} |-> Dir]
  /\ proc = [j \in Jobs |-> NoProc]
  /\ error = [j \in Jobs |-> <<>>]
  /\ cause = [j \in Jobs |-> "none"]
  /\ rm = [j \in Jobs |-> "none"]
  /\ response = [j \in Jobs |-> NoResponse]
  /\ lifecycle = [j \in Jobs |-> <<>>]
  /\ ran = [j \in Jobs |-> {}]
  /\ args \in EncoderArgs
  /\ markup = NoMarkup
  /\ TranslateIdle
  /\ ControlsIdle
  /\ ProcessorIdle

CallGenerateSRTContent ==
  /\ markup = NoMarkup
  /\ markup' = [fn |-> "generateSRTContent",
                content |-> generateSRTContent(args.segments)]
  /\ UNCHANGED <<outsideEncoders, args>>

CallGenerateVTTContent ==
  /\ markup = NoMarkup
  /\ markup' = [fn |-> "generateVTTContent",
                content |-> generateVTTContent(args.segments)]
  /\ UNCHANGED <<outsideEncoders, args>>

CallGenerateASSContent ==
  /\ markup = NoMarkup
  /\ markup' = [fn |-> "generateASSContent",
                content |-> generateASSContent(args.segments, args.style)]
  /\ UNCHANGED <<outsideEncoders, args>>

EncNext ==
  \/ CallGenerateSRTContent
  \/ CallGenerateVTTContent
  \/ CallGenerateASSContent

EncSpec == EncInit /\ [][EncNext]_vars

\* The translate handler serving one request.
TranslateSpec == Init /\ [][TranslateNext]_vars

\* The page and its subtitle controls.
ControlsSpec == Init /\ [][ControlsNext]_vars

\* One call of handleProcessVideo and the timers it starts.
ProcessorSpec == Init /\ [][ProcessorNext]_vars


(***************************************************************************)
(* Notions the claims use                                                  *)
(***************************************************************************)
Under(d) == {p \in DOMAIN fs : IsPrefix(d, p)}

ErrorReturned(j) == pc[j] = "done" /\ response[j].ctype = "application/json"

VideoReturned(j) == response[j].ctype = "video/mp4"

FormDataError == <<"Failed to parse body as FormData.">>

(***************************************************************************)
(* C1                                                                      *)
(***************************************************************************)
\* C1, as stated: when a job that had created its workspace returns an error
\* response, the removal has completed and the workspace is absent.
C1_AbsentAtErrorResponse ==
  \A j \in Jobs :
    (ErrorReturned(j) /\ "mkdir" \in ran[j]) =>
      (rm[j] = "done" /\ Under(dir(j)) = {})

\* C1, amended: when a job that had created its workspace returns an error
\* response, the removal of the workspace has been started and has settled,
\* and the workspace is absent unless the removal itself failed.
C1_RemovalSettledAtErrorResponse ==
  \A j \in Jobs :
    (ErrorReturned(j) /\ "mkdir" \in ran[j]) =>
      /\ rm[j] \in {"done", "failed"}
      /\ rm[j] = "done" => Under(dir(j)) = {}

C1_Witness ==
  \E j \in Jobs :
    /\ ErrorReturned(j) /\ "mkdir" \in ran[j]
    /\ cause[j] = "encode_failed"
    /\ rm[j] = "done" /\ Under(dir(j)) = {}

(***************************************************************************)
(* C2                                                                      *)
(***************************************************************************)
\* C2: a response of content type video/mp4 is produced only when the external
\* process of the job was started, has exited and reported success.
C2_VideoOnlyAfterProcessSuccess ==
  \A j \in Jobs :
    VideoReturned(j) => (proc[j].state = "exited" /\ proc[j].exit = "ok")

C2_Witness ==
  \E j, k \in Jobs :
    /\ VideoReturned(j)
    /\ proc[k].exit = "failed" /\ proc[k].wrote.fmt = "mp4-partial"
    /\ ErrorReturned(k)


(***************************************************************************)
(* C3                                                                      *)
(***************************************************************************)
ClaimedPaths ==
  { <<"created", "staged", "encoding", "succeeded", "cleaned">>,
    <<"created", "staged", "encoding", "failed", "cleaned">> }

\* A job also fails before the process is started (form, JSON, mkdir,
\* writeFile, encoder) and after it succeeded (readFile), and an invalid
\* request is rejected with nothing to clean.
OtherPaths ==
  { <<"created", "failed", "cleaned">>,
    <<"created", "staged", "encoding", "succeeded", "failed", "cleaned">>,
    <<"created", "rejected">> }

Along(paths, j) == \E p \in paths : IsPrefix(lifecycle[j], p)

\* C3, as stated: every job moves only along created, staged, encoding,
\* succeeded, cleaned or created, staged, encoding, failed, cleaned.
C3_OnlyClaimedPaths == \A j \in Jobs : Along(ClaimedPaths, j)

\* C3, amended: every job moves only along one of the two claimed paths or
\* along created, failed, cleaned (failure before the process is started),
\* created, staged, encoding, succeeded, failed, cleaned (output read error) or
\* created, rejected (invalid request); the video and the subtitle file are
\* written before the process is started, the process is started at most once
\* (exactly when the job enters encoding), and a job that failed has no process
\* running and ends with an error response.
C3_Lifecycle ==
  \A j \in Jobs :
    /\ Along(ClaimedPaths \cup OtherPaths, j)
    /\ (proc[j].state # "none") <=> includes(lifecycle[j], "encoding")
    /\ (proc[j].state = "running" /\ rm[j] = "none") =>
         /\ Exists(proc[j].input) /\ fs[proc[j].input].fmt = "video"
         /\ Exists(proc[j].subs) /\ fs[proc[j].subs].fmt = "ass"
    /\ includes(lifecycle[j], "failed") =>
         /\ proc[j].state # "running"
         /\ pc[j] = "done" => response[j].status = 500

C3_Witness ==
  \E j, k \in Jobs :
    /\ lifecycle[j] = <<"created", "staged", "encoding", "failed", "cleaned">>
    /\ ErrorReturned(j)
    /\ lifecycle[k] = <<"created", "staged", "encoding", "succeeded", "cleaned">>

(***************************************************************************)
(* C4                                                                      *)
(***************************************************************************)
\* The files job j has written so far, with what it wrote.
StagedFiles(j) ==
  (IF "mkdir" \in ran[j] THEN {[path |-> dir(j), content |-> Dir]} ELSE {})
  \cup
  (IF pc[j] \in {"awaitWriteSrt", "awaitWriteAss", "awaitExec", "awaitRead"}
   THEN {[path |-> dir(j) \o <<"input">> \o extname(req[j].videoFile.name),
          content |-> videoBytes(req[j].videoFile)]}
   ELSE {})
  \cup
  (IF pc[j] \in {"awaitWriteAss", "awaitExec", "awaitRead"}
   THEN {[path |-> dir(j) \o <<"subtitles", ".", "srt">>,
          content |-> srtFile(segments(j))]}
   ELSE {})
  \cup
  (IF pc[j] \in {"awaitExec", "awaitRead"}
   THEN {[path |-> dir(j) \o <<"subtitles", ".", "ass">>,
          content |-> assFile(segments(j), subtitleStyle(j))]}
   ELSE {})
  \cup
  (IF proc[j].wrote # NoContent
   THEN {[path |-> dir(j) \o <<"output", ".", "mp4">>, content |-> proc[j].wrote]}
   ELSE {})

\* C4: two jobs have distinct workspace paths, neither inside the other, and
\* as long as a job has not started its own cleanup every file it wrote exists
\* with the content it wrote, whatever the other job does.
C4_WorkspaceIsolation ==
  /\ \A j, k \in Jobs :
       (j # k /\ jobId[j] # NoId /\ jobId[k] # NoId) =>
         (dir(j) # dir(k) /\ ~IsPrefix(dir(j), dir(k)))
  /\ \A j \in Jobs :
       rm[j] = "none" =>
         \A f \in StagedFiles(j) : Exists(f.path) /\ fs[f.path] = f.content

C4_Witness ==
  \E j, k \in Jobs :
    /\ j # k
    /\ req[j] = req[k]
    /\ rm[j] = "done" /\ "mkdir" \in ran[j]
    /\ rm[k] = "none" /\ pc[k] = "awaitRead"
    /\ Cardinality(StagedFiles(k)) = 5
    /\ \A f \in StagedFiles(k) : Exists(f.path)

(***************************************************************************)
(* C5                                                                      *)
(***************************************************************************)
InvalidRequest(r) ==
  \/ r.videoFile = Null
  \/ r.subtitleStyle = Null
  \/ r.segments = Null
  \/ r.subtitlesEnabled # Text(<<"true">>)

\* C5: once the form of a request with a missing video, style or segment list,
\* or with an enabled flag other than "true", has been read, the job is over
\* with status 400; no workspace exists, no encoder has run, no process was
\* started and no removal was started.
C5_InvalidRequestRejected ==
  \A j \in Jobs :
    (pc[j] \notin {"idle", "awaitFormData"} /\ error[j] # FormDataError
     /\ InvalidRequest(req[j])) =>
      /\ pc[j] = "done"
      /\ response[j].ctype = "application/json"
      /\ response[j].status = 400
      /\ response[j].payload = <<"Missing required data for video rendering">>
      /\ ran[j] = {}
      /\ Under(dir(j)) = {}
      /\ proc[j] = NoProc
      /\ rm[j] = "none"

C5_Witness ==
  \E j, k \in Jobs :
    /\ response[j].status = 400 /\ req[j].subtitlesEnabled = Text(<<"false">>)
    /\ response[k].status = 400 /\ req[k].videoFile = Null


(***************************************************************************)
(* C6                                                                      *)
(***************************************************************************)
HasInvertedSegment(r) ==
  /\ r.segments.kind = "text" /\ JSONparses(r.segments)
  /\ JSONparse(r.segments).kind = "array"
  /\ \E i \in 1..Len(JSONparse(r.segments).items) :
       JSONparse(r.segments).items[i].start >= JSONparse(r.segments).items[i].end

\* C6: for a request whose segment list holds a segment with start >= end, no
\* format encoder runs and the external process is not started.
C6_InvertedSegmentRejected ==
  \A j \in Jobs :
    (pc[j] # "idle" /\ HasInvertedSegment(req[j])) =>
      /\ ran[j] \cap {"srt", "ass"} = {}
      /\ proc[j].state = "none"

(***************************************************************************)
(* C7                                                                      *)
(***************************************************************************)
DistinguishedCauses == {"encoder_unavailable", "encode_failed", "bad_input"}

\* C7: two failed renders whose causes are different ones of encoder not
\* available, encoder exited with an error and bad input, get different
\* error responses.
C7_CausesDistinguished ==
  \A j, k \in Jobs :
    (/\ ErrorReturned(j) /\ ErrorReturned(k)
     /\ cause[j] \in DistinguishedCauses /\ cause[k] \in DistinguishedCauses
     /\ cause[j] # cause[k])
    => response[j] # response[k]

(***************************************************************************)
(* C8                                                                      *)
(***************************************************************************)
StripUuid(s) == [i \in 1..Len(s) |-> IF s[i] \in UUIDs THEN "<uuid>" ELSE s[i]]

DifferOnlyInFileName(r1, r2) ==
  /\ r1.videoFile.kind = "file" /\ r2.videoFile.kind = "file"
  /\ r1.videoFile.bytes = r2.videoFile.bytes
  /\ r1.subtitleStyle = r2.subtitleStyle
  /\ r1.segments = r2.segments
  /\ r1.subtitlesEnabled = r2.subtitlesEnabled

\* C8: two requests that differ only in the name of the uploaded file run the
\* same command, up to the UUID of the job.
C8_CommandIndependentOfFileName ==
  \A j, k \in Jobs :
    (/\ proc[j].state # "none" /\ proc[k].state # "none"
     /\ DifferOnlyInFileName(req[j], req[k]))
    => StripUuid(proc[j].cmd) = StripUuid(proc[k].cmd)

(***************************************************************************)
(* C9                                                                      *)
(***************************************************************************)
\* The extension the claim gives the staged video: that of the original name,
\* and .mp4 for a name without any ".".
ClaimedExtension(name) ==
  IF ~includes(name, ".") THEN <<".", "mp4">> ELSE extname(name)

\* C9: the video of a job is staged as input followed by the extension of the
\* original file name, and as input.mp4 when the name has no extension.
C9_StagedUnderOriginalExtension ==
  \A j \in Jobs :
    (pc[j] \in {"awaitWriteSrt", "awaitWriteAss", "awaitExec", "awaitRead"}
     /\ rm[j] = "none")
    => Exists(dir(j) \o <<"input">> \o ClaimedExtension(req[j].videoFile.name))

(***************************************************************************)
(* C10                                                                     *)
(***************************************************************************)
\* C10: a job whose process succeeded and that met no error answers with the
\* content its process wrote to output.mp4 in the job's own workspace, as
\* video/mp4 with the download name video-with-captions.mp4.
C10_ResponseIsProcessOutput ==
  \A j \in Jobs :
    (pc[j] = "done" /\ proc[j].exit = "ok" /\ error[j] = <<>>) =>
      /\ response[j].ctype = "video/mp4"
      /\ response[j].disposition = "attachment; filename=\"video-with-captions.mp4\""
      /\ response[j].payload = proc[j].wrote
      /\ proc[j].output = dir(j) \o <<"output", ".", "mp4">>
      /\ proc[j].wrote.fmt = "mp4"

C10_Witness ==
  \E j, k \in Jobs :
    /\ j # k
    /\ pc[j] = "done" /\ proc[j].exit = "ok" /\ error[j] = <<>>
    /\ pc[k] = "done" /\ proc[k].exit = "ok" /\ error[k] = <<>>
    /\ response[j].payload # response[k].payload

(***************************************************************************)
(* C11                                                                     *)
(***************************************************************************)
\* A job is through: it has answered and no removal of its workspace is
\* outstanding.
Terminal(j) == pc[j] = "done" /\ rm[j] # "running"

\* C11: on the success path the removal of the workspace is started in the
\* continuation that returns the video, which does not wait for it (the
\* removal is still running when the response is returned); every job that
\* returned a video has started the removal; and the workspace of a job that
\* returned a video is eventually absent unless its removal failed.
C11_RemovalScheduledNotAwaited ==
  /\ [][\A j \in Jobs :
         (~VideoReturned(j) /\ VideoReturned(j)') =>
           (rm[j] = "none" /\ rm'[j] = "running" /\ Exists(dir(j))')]_vars
  /\ [](\A j \in Jobs : VideoReturned(j) => rm[j] # "none")
  /\ \A j \in Jobs : VideoReturned(j) ~> (rm[j] = "failed" \/ ~Exists(dir(j)))

\* The video has been returned while the workspace is still there, and, for
\* the other job, the workspace is gone after the video was returned.
C11_Witness ==
  /\ VideoReturned(1) /\ rm[1] = "running" /\ Exists(dir(1))
  /\ VideoReturned(2) /\ rm[2] = "done" /\ ~Exists(dir(2))

(***************************************************************************)
(* C12                                                                     *)
(***************************************************************************)
\* C12: for every job k, whatever the process of the other job does (it may
\* never exit), if the process of k itself exits whenever it runs, then k,
\* once it has arrived, reaches its terminal state.
C12_HungJobDoesNotBlock ==
  \A k \in Jobs :
    WF_vars(ProcExit(k)) => ((pc[k] # "idle") ~> Terminal(k))

\* One job is waiting for its process, which is still running, while the other
\* job, which arrived later, was staged, encoded, answered and cleaned up.
C12_Witness ==
  /\ pc[1] = "awaitExec" /\ proc[1].state = "running"
  /\ VideoReturned(2) /\ Terminal(2) /\ ~Exists(dir(2))
  /\ lifecycle[2] = <<"created", "staged", "encoding", "succeeded", "cleaned">>

(***************************************************************************)
(* Notions the claims about the encoders use                               *)
(***************************************************************************)
Lines(s) == split(s, LF)

Count == Len(args.segments)

Called(fn) == markup.fn = fn

HasLineBreak(s) == \E i \in 1..Len(s) : s[i] \in {LF, CR}

\* Where the parts of the i-th segment are in the markup when every block
\* has the lines the format gives it: 4 per SRT block, 2 header lines and 3
\* per VTT cue, 13 header lines and one per ASS event.
SrtIndex(i) == Lines(markup.content)[4 * i - 3]
SrtTiming(i) == Lines(markup.content)[4 * i - 2]
SrtText(i) == Lines(markup.content)[4 * i - 1]
VttTiming(i) == Lines(markup.content)[3 * i]
VttText(i) == Lines(markup.content)[3 * i + 1]
AssFields(i) == split(Lines(markup.content)[13 + i], ",")

\* The Text field of an event is what follows its ninth comma; the cue text
\* is the Text field without the override block.
AssText(i) ==
  LET text == join(SubSeq(AssFields(i), 10, Len(AssFields(i))), <<",">>)
  IN IF text # <<>> /\ Head(text) = "{"
     THEN split(text, "}")[2]
     ELSE text

\* The fields of the Style line, numbered as the Format line names them.
StyleField(n) == split(Tail(Lines(markup.content)[10]), ",")[n]

DecimalDigits == {"0", "1", "2", "3", "4", "5", "6", "7", "8", "9"}

\* s is made of groups of decimal digits of the given widths, with the
\* given separators between them.
IsStamp(s, widths, seps) ==
  LET n == Len(widths)
      at(k) == IF k = 1 THEN 1 ELSE 1 + widths[1] + 1
                    + (IF k > 2 THEN widths[2] + 1 ELSE 0)
                    + (IF k > 3 THEN widths[3] + 1 ELSE 0)
  IN /\ Len(s) = at(n) + widths[n] - 1
     /\ \A k \in 1..n :
          /\ \A d \in 0..(widths[k] - 1) : s[at(k) + d] \in DecimalDigits
          /\ k < n => s[at(k) + widths[k]] = seps[k]

(***************************************************************************)
(* C13                                                                     *)
(***************************************************************************)
\* C13: whichever encoder was called, SRT, VTT or ASS, the cue text it emitted
\* for each segment is the text of the segment with every line break (CR LF,
\* CR, LF) replaced by one space and then trimmed, and it holds no line break.
C13_EveryEncoderSanitizes ==
  /\ Called("generateSRTContent") /\ Count > 0 =>
       /\ Len(Lines(markup.content)) = 4 * Count
       /\ \A i \in 1..Count :
            /\ SrtText(i) = trim(replaceLineBreaks(args.segments[i].text))
            /\ ~HasLineBreak(SrtText(i))
  /\ Called("generateVTTContent") /\ Count > 0 =>
       /\ Len(Lines(markup.content)) = 2 + 3 * Count
       /\ \A i \in 1..Count :
            /\ VttText(i) = trim(replaceLineBreaks(args.segments[i].text))
            /\ ~HasLineBreak(VttText(i))
  /\ Called("generateASSContent") /\ Count > 0 =>
       /\ Len(Lines(markup.content)) = 13 + Count
       /\ \A i \in 1..Count :
            /\ AssText(i) = trim(replaceLineBreaks(args.segments[i].text))
            /\ ~HasLineBreak(AssText(i))

(***************************************************************************)
(* C14                                                                     *)
(***************************************************************************)
\* The segments with the cue texts the encoder emitted for them as texts.
Reencoded(cue(_)) ==
  [i \in 1..Count |-> [args.segments[i] EXCEPT !.text = cue(i)]]

\* C14: the SRT and the ASS encoder give the same markup for the segments
\* whose texts are the cue texts they emitted as for the original segments;
\* the text Hello LF World gives the cue text Hello World.
C14_SanitizationIdempotent ==
  /\ Called("generateSRTContent") =>
       /\ generateSRTContent(Reencoded(SrtText)) = markup.content
       /\ \A i \in 1..Count :
            args.segments[i].text = <<"Hello", LF, "World">>
              => SrtText(i) = <<"Hello", " ", "World">>
  /\ Called("generateASSContent") =>
       /\ generateASSContent(Reencoded(AssText), args.style) = markup.content
       /\ \A i \in 1..Count :
            args.segments[i].text = <<"Hello", LF, "World">>
              => AssText(i) = <<"Hello", " ", "World">>

\* The SRT encoder was called on a text that the sanitization changes at both
\* ends and inside.
C14_Witness ==
  /\ Called("generateSRTContent")
  /\ \E i \in 1..Count :
       /\ args.segments[i].text = <<" ", "Hello", CR>>
       /\ SrtText(i) = <<"Hello">>

(***************************************************************************)
(* C15                                                                     *)
(***************************************************************************)
\* C15: the SRT markup of n segments is n blocks of four lines in the order
\* of the segments: the index i, the timing line with two HH:MM:SS,mmm
\* timestamps, the sanitized text, and an empty line.
C15_SrtBlocks ==
  Called("generateSRTContent") =>
    IF Count = 0 THEN markup.content = <<>>
    ELSE /\ Len(Lines(markup.content)) = 4 * Count
         /\ \A i \in 1..Count :
              /\ SrtIndex(i) = toStringRadix(i, 10)
              /\ SrtTiming(i) = formatSRTTime(args.segments[i].start)
                                \o <<" --> ">>
                                \o formatSRTTime(args.segments[i].end)
              /\ IsStamp(SubSeq(SrtTiming(i), 1, 12), <<2, 2, 2, 3>>,
                         <<":", ":", ",">>)
              /\ IsStamp(SubSeq(SrtTiming(i), 14, 25), <<2, 2, 2, 3>>,
                         <<":", ":", ",">>)
              /\ Len(SrtTiming(i)) = 25
              /\ SrtText(i) = cleanText(args.segments[i].text)
              /\ Lines(markup.content)[4 * i] = <<>>

\* The SRT encoder was called on as many segments as a list may have, one of
\* them with a line break in its text.
C15_Witness ==
  /\ Called("generateSRTContent")
  /\ Count = MaxSegments
  /\ SrtIndex(Count) = toStringRadix(MaxSegments, 10)
  /\ \E i \in 1..Count : HasLineBreak(args.segments[i].text)

(***************************************************************************)
(* C16                                                                     *)
(***************************************************************************)
\* C16: the VTT markup is the line WEBVTT, an empty line, and then for each
\* segment, in the order of the segments, three lines: the timing line with
\* two HH:MM:SS.mmm timestamps, the line of the text, and an empty line; no
\* cue has an index line.
C16_VttCues ==
  Called("generateVTTContent") =>
    /\ Len(Lines(markup.content)) = (IF Count = 0 THEN 3 ELSE 2 + 3 * Count)
    /\ Lines(markup.content)[1] = <<"WEBVTT">>
    /\ Lines(markup.content)[2] = <<>>
    /\ \A i \in 1..Count :
         /\ VttTiming(i) = formatVTTTime(args.segments[i].start)
                           \o <<" --> ">>
                           \o formatVTTTime(args.segments[i].end)
         /\ IsStamp(SubSeq(VttTiming(i), 1, 12), <<2, 2, 2, 3>>,
                    <<":", ":", ".">>)
         /\ IsStamp(SubSeq(VttTiming(i), 14, 25), <<2, 2, 2, 3>>,
                    <<":", ":", ".">>)
         /\ VttText(i) \in {args.segments[i].text,
                            cleanText(args.segments[i].text)}
         /\ Lines(markup.content)[3 * i + 2] = <<>>

(***************************************************************************)
(* C17                                                                     *)
(***************************************************************************)
\* The fields of a timestamp as the decimal numbers give them.
Hours(t) == t \div 3600000
Minutes(t) == (t % 3600000) \div 60000
Secs(t) == (t % 60000) \div 1000
Millis(t) == t % 1000
Centis(t) == (t % 1000) \div 10

ClaimedStamp(t, hourWidth, sep, fraction, fractionWidth) ==
  padStart(toStringRadix(Hours(t), 10), hourWidth, "0") \o <<":">>
  \o padStart(toStringRadix(Minutes(t), 10), 2, "0") \o <<":">>
  \o padStart(toStringRadix(Secs(t), 10), 2, "0") \o <<sep>>
  \o padStart(toStringRadix(fraction, 10), fractionWidth, "0")

ClaimedSRTTime(t) == ClaimedStamp(t, 2, ",", Millis(t), 3)
ClaimedVTTTime(t) == ClaimedStamp(t, 2, ".", Millis(t), 3)
ClaimedASSTime(t) == ClaimedStamp(t, 1, ".", Centis(t), 2)

\* C17: the timestamps of every segment are made of hours, minutes, seconds
\* and the milliseconds (SRT, VTT) or centiseconds (ASS) of its time, padded
\* to 2, 2, 2 and 3 digits (SRT, VTT) and to 1, 2, 2 and 2 digits (ASS);
\* 1.5 is 00:00:01,500, 00:00:01.500 and 0:00:01.50.
C17_TimestampFields ==
  \A i \in 1..Count :
    LET start == args.segments[i].start
        end == args.segments[i].end
    IN /\ Called("generateSRTContent") =>
            SrtTiming(i) = ClaimedSRTTime(start) \o <<" --> ">> \o ClaimedSRTTime(end)
       /\ (Called("generateVTTContent")
             /\ \A k \in 1..Count : ~HasLineBreak(args.segments[k].text)) =>
            VttTiming(i) = ClaimedVTTTime(start) \o <<" --> ">> \o ClaimedVTTTime(end)
       /\ Called("generateASSContent") =>
            /\ AssFields(i)[2] = ClaimedASSTime(start)
            /\ AssFields(i)[3] = ClaimedASSTime(end)

(***************************************************************************)
(* C18                                                                     *)
(***************************************************************************)
\* C18: the PrimaryColour field of the Style line is &H, 00, and the blue,
\* the green and the red pair of digits of the colour #RRGGBB of the style.
C18_PrimaryColourIsBGR ==
  Called("generateASSContent") =>
    LET c == args.style.color
    IN StyleField(4) = <<"&H", "0", "0", c[6], c[7], c[4], c[5], c[2], c[3]>>

\* The ASS encoder was called with the colour #112233 and wrote &H00332211.
C18_Witness ==
  /\ Called("generateASSContent")
  /\ args.style.color = <<"#", "1", "1", "2", "2", "3", "3">>
  /\ StyleField(4) = <<"&H", "0", "0", "3", "3", "2", "2", "1", "1">>

(***************************************************************************)
(* C19                                                                     *)
(***************************************************************************)
\* round((1 - opacity) * 255) in two upper case hexadecimal digits
ClaimedAlpha(opacity) ==
  toUpperCase(padStart(toStringRadix(round((100 - opacity) * 255, 100), 16),
                       2, "0"))

\* C19: with noBackground false, the OutlineColour and the BackColour field
\* of the Style line are &H, the alpha round((1 - opacity) * 255) in two upper
\* case hexadecimal digits, and the blue, green and red digits of
\* backgroundColor.
C19_BackgroundAlphaFromOpacity ==
  (Called("generateASSContent") /\ ~args.style.noBackground) =>
    LET c == args.style.backgroundColor
        tag == <<"&H">> \o ClaimedAlpha(args.style.opacity)
               \o <<c[6], c[7], c[4], c[5], c[2], c[3]>>
    IN /\ StyleField(6) = tag
       /\ StyleField(7) = tag

(***************************************************************************)
(* C20                                                                     *)
(***************************************************************************)
\* C20: with noBackground true the alpha of the BackColour field is FF
\* whatever the opacity is and the BorderStyle field is 1; with noBackground
\* false the BorderStyle field is 3.
C20_NoBackgroundOverridesOpacity ==
  Called("generateASSContent") =>
    IF args.style.noBackground
    THEN /\ SubSeq(StyleField(7), 1, 3) = <<"&H", "F", "F">>
         /\ StyleField(16) = <<"1">>
    ELSE StyleField(16) = <<"3">>

\* The ASS encoder was called with noBackground true and a fully opaque
\* background.
C20_Witness ==
  /\ Called("generateASSContent")
  /\ args.style.noBackground
  /\ args.style.opacity = 100
  /\ StyleField(16) = <<"1">>

(***************************************************************************)
(* C21                                                                     *)
(***************************************************************************)
\* The value of a cell of the nine-cell anchor grid: the bottom row starts
\* at 1 and the top row at 7, and left, center, right add 0, 1, 2.
AnchorCell(horizontal, vertical) ==
  (IF vertical = "top" THEN 7 ELSE 1)
  + (IF horizontal = "left" THEN 0 ELSE IF horizontal = "center" THEN 1 ELSE 2)

\* C21: with customPosition false, the Alignment field of the Style line is
\* the anchor cell of (alignment, position): 1, 2, 3 in the bottom row and
\* 7, 8, 9 in the top row.
C21_AlignmentIsAnchorCell ==
  (Called("generateASSContent") /\ ~args.style.customPosition) =>
    StyleField(19) = toString(AnchorCell(args.style.alignment, args.style.position))

\* The ASS encoder was called with (left, top) and wrote Alignment 7.
C21_Witness ==
  /\ Called("generateASSContent")
  /\ ~args.style.customPosition
  /\ args.style.alignment = "left"
  /\ args.style.position = "top"
  /\ StyleField(19) = <<"7">>

(***************************************************************************)
(* C22                                                                     *)
(***************************************************************************)
\* The override block of the i-th event: what stands between the braces at
\* the start of its Text field.
AssOverrides(i) ==
  LET text == join(SubSeq(AssFields(i), 10, Len(AssFields(i))), <<",">>)
  IN IF text # <<>> /\ Head(text) = "{"
     THEN Tail(split(text, "}")[1])
     ELSE <<>>

\* s has the tokens of tag next to each other.
carries(s, tag) ==
  \E k \in 1..(Len(s) - Len(tag) + 1) : SubSeq(s, k, k + Len(tag) - 1) = tag

\* The anchor a renderer applies to the i-th event: the anchor override of
\* the event when it has one, the Alignment field of its style otherwise.
AnchorInEffect(i) ==
  IF carries(AssOverrides(i), <<"\\an5">>) THEN <<"5">> ELSE StyleField(19)

\* The placement override at the pixel of (xPosition, yPosition) percent of
\* a 1280 x 720 canvas.
ClaimedPos(style) ==
  <<"\\pos(">> \o toString(round(style.xPosition * 1280, 100)) \o <<",">>
  \o toString(round(style.yPosition * 720, 100)) \o <<")">>

\* C22: with customPosition true every dialogue event is anchored at the
\* both-axes-centred cell 5 and carries the placement override at pixel
\* (round(xPosition/100 * 1280), round(yPosition/100 * 720)); with
\* customPosition false no dialogue event carries a placement override.
C22_CustomPositionOverrides ==
  Called("generateASSContent") =>
    \A i \in 1..Count :
      IF args.style.customPosition
      THEN /\ AnchorInEffect(i) = <<"5">>
           /\ carries(AssOverrides(i), ClaimedPos(args.style))
      ELSE ~carries(Lines(markup.content)[13 + i], <<"\\pos(">>)

\* The ASS encoder was called with customPosition true, xPosition 50 and
\* yPosition 90, and its first event is placed at (640, 648).
C22_Witness ==
  /\ Called("generateASSContent")
  /\ args.style.customPosition
  /\ args.style.xPosition = 50
  /\ args.style.yPosition = 90
  /\ Count >= 1
  /\ carries(AssOverrides(1),
             <<"\\pos(", "6", "4", "0", ",", "6", "4", "8", ")", "\\an5">>)

(***************************************************************************)
(* C23                                                                     *)
(***************************************************************************)
\* C23: when the external process failed, the error returned to the caller
\* carries the message of the process error (the command and the stderr of
\* the process).
C23_ProcessDiagnosticReturned ==
  \A j \in Jobs :
    (ErrorReturned(j) /\ cause[j] \in {"encoder_unavailable", "encode_failed"}) =>
      carries(response[j].payload, ExecError(proc[j]))

(***************************************************************************)
(* C24                                                                     *)
(***************************************************************************)
\* The styles that differ from style in the one field f at most.
DifferingOnlyIn(style, f) == {[style EXCEPT ![f] = v] : v \in StyleValues[f]}

\* The fields of the Style line of a markup.
StyleFieldsOf(content) == split(Tail(Lines(content)[10]), ",")

\* Two markups are the same but for the n-th field of their Style lines.
SameButStyleField(a, b, n) ==
  /\ Len(Lines(a)) = Len(Lines(b))
  /\ \A k \in 1..Len(Lines(a)) : k # 10 => Lines(a)[k] = Lines(b)[k]
  /\ Len(StyleFieldsOf(a)) = Len(StyleFieldsOf(b))
  /\ \A k \in 1..Len(StyleFieldsOf(a)) :
       k # n => StyleFieldsOf(a)[k] = StyleFieldsOf(b)[k]

\* C24 as stated: with customPosition true, a style that differs from the
\* style of the call only in alignment or only in position yields the same
\* markup.
C24_PlacementFromXYAlone ==
  (Called("generateASSContent") /\ args.style.customPosition) =>
    \A t \in DifferingOnlyIn(args.style, "alignment")
             \cup DifferingOnlyIn(args.style, "position") :
      generateASSContent(args.segments, t) = markup.content

\* C24 as amended: with customPosition true, a style that differs only in
\* alignment yields the same markup, and a style that differs only in
\* position yields the same markup but for the MarginV field of the Style
\* line, which is 20 for bottom and 50 for top.
C24_PlacementFromXYButMarginV ==
  (Called("generateASSContent") /\ args.style.customPosition) =>
    /\ \A t \in DifferingOnlyIn(args.style, "alignment") :
         generateASSContent(args.segments, t) = markup.content
    /\ \A t \in DifferingOnlyIn(args.style, "position") :
         /\ SameButStyleField(generateASSContent(args.segments, t),
                              markup.content, 22)
         /\ StyleFieldsOf(generateASSContent(args.segments, t))[22] =
              (IF t.position = "bottom" THEN <<"20">> ELSE <<"50">>)

\* The ASS encoder was called with customPosition true and position top: it
\* wrote MarginV 50 and Alignment 2, and position bottom would give MarginV 20.
C24_Witness ==
  /\ Called("generateASSContent")
  /\ args.style.customPosition
  /\ args.style.position = "top"
  /\ StyleField(22) = <<"50">>
  /\ StyleField(19) = <<"2">>
  /\ Count >= 1

(***************************************************************************)
(* C25                                                                     *)
(***************************************************************************)
QuoteChars == {"'", "\""}

\* s without the quote character it starts with and the one it ends with
Unquoted(s) ==
  LET from == IF s # <<>> /\ s[1] \in QuoteChars THEN 2 ELSE 1
      to == IF Len(s) >= from /\ s[Len(s)] \in QuoteChars THEN Len(s) - 1
            ELSE Len(s)
  IN SubSeq(s, from, to)

\* C25: the Fontname field of the Style line is the first comma-separated
\* entry of fontFamily, trimmed and without its surrounding quote characters,
\* single or double; no quote character is in the field.
C25_FontnameIsFirstEntryUnquoted ==
  Called("generateASSContent") =>
    /\ StyleField(2) = Unquoted(trim(split(args.style.fontFamily, ",")[1]))
    /\ \A k \in 1..Len(StyleField(2)) : StyleField(2)[k] \notin QuoteChars

(***************************************************************************)
(* C26                                                                     *)
(***************************************************************************)
\* How many pieces the answer of the translator has: one more than it has
\* separators.
Pieces(answer) == 1 + Cardinality({k \in 1..Len(answer) : answer[k] = SegmentBreak})

\* C26: a translation that succeeds returns one segment per segment of the
\* request, in the same order: each has the start and the end of the segment
\* at its index and an identifier that no segment of the request and no
\* other returned segment has, whatever the number of pieces of the answer
\* of the translator is; a segment without a piece keeps its text; and the
\* array of the request is as it was received.
C26_TranslationIsNewList ==
  translateResponse.status = 200 =>
    LET input == translateBody.segments.items
        output == translateResponse.segments
    IN /\ Len(output) = Len(input)
       /\ \A i \in 1..Len(input) :
            /\ output[i].start = input[i].start
            /\ output[i].end = input[i].end
            /\ \A k \in 1..Len(input) : output[i].id # input[k].id
            /\ \A k \in 1..Len(input) : k # i => output[i].id # output[k].id
            /\ i > Pieces(translation.result) => output[i].text = input[i].text
       /\ translateSegments = input

\* Two segments were sent, the translator answered with one piece, and the
\* second returned segment has its original text and a new identifier.
C26_Witness ==
  /\ translateResponse.status = 200
  /\ Len(translateBody.segments.items) = 2
  /\ translation.result = <<"Hola">>
  /\ translateResponse.segments[1].text = <<"Hola">>
  /\ translateResponse.segments[2].text = translateBody.segments.items[2].text
  /\ translateResponse.segments[2].id = <<"uuid", 2>>

(***************************************************************************)
(* C27                                                                     *)
(***************************************************************************)
\* C27: when the removal of the workspace of a job that has not failed is
\* started, the handler has read the output file: it holds, as the body of
\* its response, all that the process wrote to output.mp4.
C27_ReadBeforeRemoval ==
  \A j \in Jobs :
    (rm[j] # "none" /\ cause[j] = "none") =>
      /\ proc[j].exit = "ok"
      /\ response[j] = SuccessResponse(proc[j].wrote)

\* The removal of the workspace of a job is running, the output file is
\* still there, and the response holds its content.
C27_Witness ==
  \E j \in Jobs :
    /\ rm[j] = "running"
    /\ cause[j] = "none"
    /\ Exists(outputPath(dir(j)))
    /\ response[j].payload = fs[outputPath(dir(j))]
    /\ VideoReturned(j)

(***************************************************************************)
(* C28                                                                     *)
(***************************************************************************)
\* C28: a job is answered with the error that tells to make sure FFmpeg is
\* installed only if its external process was started.
C28_HintOnlyAfterInvocation ==
  \A j \in Jobs :
    (ErrorReturned(j) /\ response[j].payload = FfmpegHint) =>
      proc[j].state # "none"

(***************************************************************************)
(* C29                                                                     *)
(***************************************************************************)
\* C29: after top or bottom was picked in the position selector while
\* customPosition was true, the style the page holds has customPosition
\* false, the picked position, xPosition 50, and yPosition 10 for top and
\* 90 for bottom.
C29_PickLeavesCustomMode ==
  (lastPick.value \in {"top", "bottom"} /\ lastPick.custom) =>
    /\ pageStyle.customPosition = FALSE
    /\ pageStyle.position = lastPick.value
    /\ pageStyle.xPosition = 50
    /\ pageStyle.yPosition = (IF lastPick.value = "top" THEN 10 ELSE 90)

(***************************************************************************)
(* C30                                                                     *)
(***************************************************************************)
\* C30: once handleProcessVideo has settled, no interval timer that was
\* started during the call is running, and the progress stays at the 0 it
\* was reset to.
C30_NoTimerAfterSettled ==
  processPc = "settled" =>
    /\ \A id \in 1..Len(intervals) : ~intervals[id].running
    /\ progress = 0

=============================================================================
